---- MODULE Spec2Model ----
(***************************************************************************)
(* LegalPDF (src/App.tsx, src/services/pdfService.ts): the workspace of    *)
(* document parts, the per-item analysis tasks, the sequential batch       *)
(* runner and the cooperative cancellation registry.                       *)
(*                                                                         *)
(* JavaScript runs one job at a time.  An async function runs from one     *)
(* await to the next without interruption, and the continuation of an      *)
(* await on an already settled promise is a microtask, which runs before   *)
(* the next user event or collaborator callback.  Each action below is one *)
(* such job: an event handler up to its first pending await, or the        *)
(* return of a collaborator together with everything the code does before  *)
(* it waits for a collaborator again.  React renders between jobs, so a    *)
(* handler reads the state of the job that precedes it; the values an      *)
(* async function closed over at its invocation are kept in its frame.     *)
(***************************************************************************)
EXTENDS Integers, Sequences, FiniteSets, TLC

\* ------------------------------------------------------------------ bounds
MaxItems == 2     \* workspace items
MaxTasks == 2     \* async functions in flight at once
MaxBatches == 2   \* batch loops running at once
MaxHistory == 2   \* history entries
MaxSaved == 1     \* history entries in the durable slot at the first startup
MaxProcesses == 3 \* records in a list handed to the grouping fold
MaxPages == 25    \* pages of a document handed to splitPdf
MaxPerPart == 10  \* pagesPerPart handed to splitPdf

\* Page count of the documents the user uploads.
PageCounts == {3}
\* Values of the pagesPerPart input (its initial value is 10, line 42).
PagesPerPartInputs == {2}
\* Values of the filter list input (its initial value is '', line 21).
SearchQueries == {""}
\* Values of the filter list input when a claim is about the filter.
FilterQueries == {"", "1001821-85.2024.8.26.0291"}
\* file.type of an uploaded file.
FileTypes == {"application/pdf", "image/png", "text/plain"}
\* toolMode when a document is uploaded to be split, and when it is
\* uploaded to be analysed at once.
SplitModes == {"split", "consolidated"}
TaskModes == {"extract", "ocr"}
\* What extractLegalData resolves with: lists of (foro, processo) records.
Extractions == {<<[foro |-> "Jaboticabal", processo |-> "p1"]>>}
\* err.message of a rejected collaborator call ("" stands for no message).
ErrMessages == {"collaborator failed"}

\* --------------------------------------------------------------- constants
Null == "null"
DIRECT_UPLOAD == "direct_upload"
DIRECT_OCR == "direct_ocr"
\* crypto.randomUUID(): the k-th call returns a fresh identifier.
UUIDs == <<"u1", "u2", "u3", "u4", "u5", "u6">>
IdleProgress == [current |-> 0, total |-> 0, phase |-> "idle"]
NoResults == [defined |-> FALSE, value |-> <<>>]
UploadName == [doc |-> "upload", part |-> 0, from |-> 0, to |-> 0]

(***************************************************************************)
(* searchQuery, pagesPerPart and toolMode are written by controls that are *)
(* enabled in every state (lines 1082, 1121, 977-980; toolMode also at     *)
(* line 269) and read only by the handlers below at their invocation, so   *)
(* each handler draws the value it reads as an input.  currentFile is 0    *)
(* for null and the page count of the uploaded PDF otherwise.  A result    *)
(* that may be absent is [defined, value]; error is Null or the message.   *)
(* The id and timestamp of a HistoryItem are not modelled.                 *)
(*                                                                         *)
(* storage is the localStorage slot 'legal_filter_history': [kind, items]  *)
(* with kind "missing" (getItem returns null), "corrupt" (JSON.parse       *)
(* throws), "other" (JSON.parse returns something that is not a list of    *)
(* history entries) or "list" (it returns items).  app is the life of the  *)
(* component: phase "off" (not started), "mounted" (first render and its   *)
(* effects done, the setHistory of the load effect not rendered yet),      *)
(* "ready" or "crashed" (a render threw), boot the kind of the slot the    *)
(* load effect found, and loaded what it handed to setHistory.  pure holds *)
(* one call of a function of the services, its arguments and its result.   *)
(***************************************************************************)
VARIABLES
  workspace,            \* useState<WorkspaceFile[]>
  history,              \* useState<HistoryItem[]>, newest first
  groupedData,          \* useState<GroupedProcesses | null>
  loading,              \* useState(false)
  progress,             \* useState({current, total, phase})
  error,                \* useState<string | null>
  isSequentialRunning,  \* useState(false)
  isBatchStopped,       \* useRef(false)
  activeProcesses,      \* useRef<Record<string, boolean>>({})
  currentFile,          \* useState<File | null>
  tasks,                \* frames of the async functions that have not returned
  batches,              \* frames of the analyzeBatchSequential loops still running
  storage,              \* localStorage['legal_filter_history']
  app,                  \* the component: phase, boot, loaded
  pure,                 \* a call of a pure function: fn, args, result, done
  simulatedProgress     \* useState(0): the percentage shown while analyzing

vars == <<workspace, history, groupedData, loading, progress, error,
          isSequentialRunning, isBatchStopped, activeProcesses, currentFile,
          tasks, batches, storage, app, pure, simulatedProgress>>

\* The whole state as one record, so that a handler is a function of it.
St ==
  [workspace |-> workspace, history |-> history, groupedData |-> groupedData,
   loading |-> loading, progress |-> progress, error |-> error,
   isSequentialRunning |-> isSequentialRunning,
   isBatchStopped |-> isBatchStopped, activeProcesses |-> activeProcesses,
   currentFile |-> currentFile, tasks |-> tasks, batches |-> batches]

\* JSON.stringify(history) as the slot holds it.
Saved(h) == [kind |-> "list", items |-> h]

NoCall == [fn |-> "none", args |-> <<>>, result |-> <<>>, done |-> FALSE]
Running == [phase |-> "ready", boot |-> "missing", loaded |-> <<>>]

\* A job of the running component ends in state s; the save effect (lines
\* 59-61) runs in the render that follows a change of history, and the
\* effect of lines 89-105 in the render that follows a change of
\* progress.phase: both of its branches call setSimulatedProgress(0).
Becomes(s) ==
  /\ app.phase = "ready"
  /\ workspace' = s.workspace
  /\ history' = s.history
  /\ groupedData' = s.groupedData
  /\ loading' = s.loading
  /\ progress' = s.progress
  /\ error' = s.error
  /\ isSequentialRunning' = s.isSequentialRunning
  /\ isBatchStopped' = s.isBatchStopped
  /\ activeProcesses' = s.activeProcesses
  /\ currentFile' = s.currentFile
  /\ tasks' = s.tasks
  /\ batches' = s.batches
  /\ storage' = IF s.history # history THEN Saved(s.history) ELSE storage
  /\ simulatedProgress' = IF s.progress.phase # progress.phase THEN 0
                          ELSE simulatedProgress
  /\ UNCHANGED <<app, pure>>

\* The component state of the first render.
Fresh ==
  /\ workspace = <<>>
  /\ history = <<>>
  /\ groupedData = NoResults
  /\ loading = FALSE
  /\ progress = IdleProgress
  /\ error = Null
  /\ isSequentialRunning = FALSE
  /\ isBatchStopped = FALSE
  /\ activeProcesses = [k \in {} |-> FALSE]
  /\ currentFile = 0
  /\ tasks = <<>>
  /\ batches = <<>>
  /\ simulatedProgress = 0

\* The application running, started with no saved history.
Init ==
  /\ Fresh
  /\ storage = Saved(<<>>)
  /\ app = Running
  /\ pure = NoCall

\* ----------------------------------------------------------------- helpers
\* activeProcesses.current[k] read as a condition: a missing key is falsy.
IsActive(ap, k) == k \in DOMAIN ap /\ ap[k]

\* activeProcesses.current[k] = v
SetActive(ap, k, v) ==
  [x \in (DOMAIN ap) \cup {k} |-> IF x = k THEN v ELSE ap[x]]

\* prev.map(f => f.id === id ? change(f) : f)
MapItem(ws, id, Change(_)) ==
  [i \in DOMAIN ws |-> IF ws[i].id = id THEN Change(ws[i]) ELSE ws[i]]

Min(a, b) == IF a < b THEN a ELSE b

\* A GroupedProcesses object is the sequence of its (key, value) pairs in the
\* order Object.entries and Object.keys enumerate them.  A JavaScript object
\* enumerates the keys that are array indices ("1", "2") first, in ascending
\* numeric order, and the other keys after them in the order they were added.
IndexKeys == <<"1", "2">>

IsIndexKey(key) == \E i \in DOMAIN IndexKeys : IndexKeys[i] = key

IndexOfKey(key) == CHOOSE i \in DOMAIN IndexKeys : IndexKeys[i] = key

\* grouped[key] = [] on an object that has no such key.
AddKey(grouped, key) ==
  LET entry == [foro |-> key, processos |-> <<>>]
      Before(e) == IsIndexKey(e.foro) /\ IndexOfKey(e.foro) < IndexOfKey(key)
      n == Cardinality({i \in DOMAIN grouped : Before(grouped[i])})
  IN IF IsIndexKey(key)
     THEN SubSeq(grouped, 1, n) \o <<entry>> \o SubSeq(grouped, n + 1, Len(grouped))
     ELSE Append(grouped, entry)

\* The grouping fold: if (!grouped[p.foro]) grouped[p.foro] = [];
\* grouped[p.foro].push(p.processo).
RECURSIVE GroupFold(_, _)
GroupFold(processes, grouped) ==
  IF processes = <<>> THEN grouped
  ELSE LET p == Head(processes)
           has == \E i \in DOMAIN grouped : grouped[i].foro = p.foro
           g1 == IF has THEN grouped ELSE AddKey(grouped, p.foro)
           next == [i \in DOMAIN g1 |->
                      IF g1[i].foro = p.foro
                      THEN [g1[i] EXCEPT !.processos = Append(@, p.processo)]
                      ELSE g1[i]]
       IN GroupFold(Tail(processes), next)

Group(processes) == GroupFold(processes, <<>>)

\* The loop of splitPdf: for (i = 0; i < totalPages; i += pagesPerPart).
RECURSIVE SplitLoop(_, _, _, _)
SplitLoop(i, totalPages, perPart, parts) ==
  IF i < totalPages
  THEN LET endPage == Min(i + perPart, totalPages)
           part == [name |-> [doc |-> "part", part |-> Len(parts) + 1,
                              from |-> i + 1, to |-> endPage],
                    pageCount |-> endPage - i]
       IN SplitLoop(i + perPart, totalPages, perPart, Append(parts, part))
  ELSE parts

\* splitPdf dropping the pages after the last whole part.
splitPdfWholeParts(totalPages, perPart) ==
  SplitLoop(0, (totalPages \div perPart) * perPart, perPart, <<>>)

splitPdf(totalPages, perPart) == SplitLoop(0, totalPages, perPart, <<>>)

\* ------------------------------------------------------------- task frames
\* One invocation of an async function that has not returned: its arguments,
\* the values it closed over, and where it is suspended.  pc: "extract" (in
\* extractTextFromPdf, page pages read so far), "base64" (in fileToBase64),
\* "analyze" (in extractLegalData / extractLegalDataFromModality), "split"
\* (in splitPdf).  owner is the batch loop awaiting it (0: none).
\* cancelledAt is a history field: the pc at which a stopAnalysis found the
\* task ("" if none did).  searchList is the filter list the task handed to
\* extractLegalData (Null before the call).
Frame(kind, key, fileId, name, pages, pc, seqClosure, query, mime, owner) ==
  [kind |-> kind, key |-> key, fileId |-> fileId, name |-> name,
   pages |-> pages, page |-> 0, pc |-> pc, seqClosure |-> seqClosure,
   query |-> query, mime |-> mime, owner |-> owner, perPart |-> 0,
   cancelledAt |-> "", searchList |-> Null]

\* The function of frame t returns.
Return(s, t) ==
  [s EXCEPT !.tasks = SubSeq(@, 1, t - 1) \o SubSeq(@, t + 1, Len(@))]

\* err.message || fallback
MessageOr(msg, fallback) == IF msg = "" THEN fallback ELSE msg

\* A name that carries the suffix whatever the filter list is.
FilterSuffixAlways(query) == " (Filtro)"

\* name + (searchQuery ? ' (Filtro)' : '')
FilterSuffix(query) == IF query # "" THEN " (Filtro)" ELSE ""

\* ------------------------------------------------------------ stopAnalysis
\* stopAnalysis without setLoading(false).
stopAnalysisLeavesLoading(s, id) ==
  LET Reset(f) == [f EXCEPT !.status = IF @ = "processing" THEN "idle" ELSE @]
  IN [s EXCEPT
        !.isBatchStopped = TRUE,
        !.activeProcesses = [k \in DOMAIN s.activeProcesses |-> FALSE],
        !.workspace = [i \in DOMAIN s.workspace |-> Reset(s.workspace[i])],
        !.isSequentialRunning = FALSE,
        !.progress = IdleProgress,
        !.error = Null]

stopAnalysis(s, id) ==
  LET Reset(f) == [f EXCEPT !.status = IF @ = "processing" THEN "idle" ELSE @]
  IN [s EXCEPT
        !.isBatchStopped = TRUE,
        !.activeProcesses = [k \in DOMAIN s.activeProcesses |-> FALSE],
        !.workspace = [i \in DOMAIN s.workspace |-> Reset(s.workspace[i])],
        !.loading = FALSE,
        !.isSequentialRunning = FALSE,
        !.progress = IdleProgress,
        !.error = Null]

\* History fields only: which frames a stop found in flight.
MarkStopped(s) ==
  LET MarkTask(f) == IF f.cancelledAt = ""
                     THEN [f EXCEPT !.cancelledAt = f.pc] ELSE f
      MarkLoop(fr) == [fr EXCEPT !.stopped = TRUE]
  IN [s EXCEPT
        !.tasks = [t \in DOMAIN s.tasks |-> MarkTask(s.tasks[t])],
        !.batches = [b \in DOMAIN s.batches |-> MarkLoop(s.batches[b])]]

\* ---------------------------------------------------- analyzeWorkspaceFile
\* Lines 269-289: up to the first await inside extractTextFromPdf.
awfStart(s, file, seqClosure, query, owner) ==
  LET Processing(f) == [f EXCEPT !.status = "processing", !.selected = FALSE]
  IN [s EXCEPT
        !.activeProcesses =
           SetActive(SetActive(@, DIRECT_UPLOAD, TRUE), file.id, TRUE),
        !.loading = TRUE,
        !.groupedData = NoResults,
        !.error = Null,
        !.progress = [current |-> 0, total |-> 0, phase |-> "extracting"],
        !.workspace = MapItem(@, file.id, Processing),
        !.tasks = Append(@, Frame("awf", DIRECT_UPLOAD, file.id, file.name,
                                  file.pageCount, "extract", seqClosure, query,
                                  "application/pdf", owner))]

\* Lines 322-326.
awfCatch(s, t, msg) ==
  LET f == s.tasks[t]
      Failed(w) == [w EXCEPT !.status = "error"]
  IN IF IsActive(s.activeProcesses, f.key)
     THEN [s EXCEPT
             !.workspace = MapItem(@, f.fileId, Failed),
             !.error = MessageOr(msg, "Erro ao analisar arquivo do workspace.")]
     ELSE s

\* Lines 327-333.
awfFinally(s, t) ==
  LET f == s.tasks[t]
  IN [s EXCEPT
        !.activeProcesses = SetActive(SetActive(@, f.key, FALSE), f.fileId, FALSE),
        !.loading = IF ~f.seqClosure THEN FALSE ELSE @,
        !.tasks = Return(s, t).tasks]

\* onProgress (lines 283-287), called by extractTextFromPdf after each page.
onProgress(s, t, current, total) ==
  IF IsActive(s.activeProcesses, s.tasks[t].key)
  THEN [s EXCEPT !.progress = [current |-> current, total |-> total,
                               phase |-> "extracting"]]
  ELSE s

\* awfPage marking the item completed as soon as the text is there, before
\* extractLegalData is called.
awfPageCommitsEarly(s, t, ok, msg, blank) ==
  LET f == s.tasks[t]
      s1 == onProgress([s EXCEPT !.tasks[t].page = f.page + 1], t,
                       f.page + 1, f.pages)
      Completed(w) == [w EXCEPT !.status = "completed",
                                !.results = [defined |-> TRUE, value |-> <<>>],
                                !.selected = FALSE]
  IN IF ~ok THEN awfFinally(awfCatch(s, t, msg), t)
     ELSE IF f.page + 1 < f.pages THEN s1
     ELSE IF ~IsActive(s1.activeProcesses, f.key) THEN awfFinally(s1, t)
     ELSE IF blank
       THEN awfFinally(awfCatch(s1, t,
              "Não foi possível extrair texto desta parte do documento."), t)
     ELSE [s1 EXCEPT
             !.workspace = MapItem(@, f.fileId, Completed),
             !.progress = [current |-> 0, total |-> 0, phase |-> "analyzing"],
             !.tasks[t].pc = "analyze",
             !.tasks[t].searchList = f.query]

\* extractTextFromPdf reads one more page, or throws (ok = FALSE, msg); after
\* the last page it returns the text (blank = it is only whitespace) and the
\* task runs lines 290-295.
awfPage(s, t, ok, msg, blank) ==
  LET f == s.tasks[t]
      s1 == onProgress([s EXCEPT !.tasks[t].page = f.page + 1], t,
                       f.page + 1, f.pages)
  IN IF ~ok THEN awfFinally(awfCatch(s, t, msg), t)
     ELSE IF f.page + 1 < f.pages THEN s1
     ELSE IF ~IsActive(s1.activeProcesses, f.key) THEN awfFinally(s1, t)
     ELSE IF blank
       THEN awfFinally(awfCatch(s1, t,
              "Não foi possível extrair texto desta parte do documento."), t)
     ELSE [s1 EXCEPT
             !.progress = [current |-> 0, total |-> 0, phase |-> "analyzing"],
             !.tasks[t].pc = "analyze",
             !.tasks[t].searchList = f.query]

\* extractLegalData resolves with extracted.processes, or rejects (ok = FALSE,
\* msg): lines 296-321, then the catch and finally blocks.
awfAnalyzed(s, t, ok, msg, processes) ==
  LET f == s.tasks[t]
      grouped == [defined |-> TRUE, value |-> Group(processes)]
      Completed(w) == [w EXCEPT !.status = "completed", !.results = grouped,
                                !.selected = FALSE]
      newHistoryItem == [name |-> [file |-> f.name, suffix |-> FilterSuffix(f.query)],
                         results |-> grouped.value]
  IN IF ~ok THEN awfFinally(awfCatch(s, t, msg), t)
     ELSE IF ~IsActive(s.activeProcesses, f.key) THEN awfFinally(s, t)
     ELSE awfFinally([s EXCEPT
                        !.workspace = MapItem(@, f.fileId, Completed),
                        !.groupedData = grouped,
                        !.history = <<newHistoryItem>> \o @], t)

\* -------------------------------------------------- analyzeBatchSequential
\* A loop frame: its number, the snapshot selectedFiles (of each file the
\* fields the loop reads), the index of the item awaited, the closure values,
\* and the history field stopped (a stopAnalysis was invoked since the loop
\* started).
LoopAt(s, b) == CHOOSE i \in DOMAIN s.batches : s.batches[i].loop = b

IsRunning(s, b) == \E i \in DOMAIN s.batches : s.batches[i].loop = b

\* The loop leaving isSequentialRunning set when it exits.
batchLoopLeavesRunning(s, b) ==
  LET at == LoopAt(s, b)
      fr == s.batches[at]
      k == fr.index + 1
  IN IF k <= Len(fr.selectedFiles) /\ ~s.isBatchStopped
     THEN awfStart([s EXCEPT !.batches[at].index = k], fr.selectedFiles[k],
                   fr.seqClosure, fr.query, b)
     ELSE [s EXCEPT
             !.loading = FALSE,
             !.progress = IdleProgress,
             !.batches = SubSeq(@, 1, at - 1) \o SubSeq(@, at + 1, Len(@))]

\* The loop walking its snapshot from the last item to the first.
batchLoopFromTheEnd(s, b) ==
  LET at == LoopAt(s, b)
      fr == s.batches[at]
      k == fr.index + 1
  IN IF k <= Len(fr.selectedFiles) /\ ~s.isBatchStopped
     THEN awfStart([s EXCEPT !.batches[at].index = k],
                   fr.selectedFiles[Len(fr.selectedFiles) - k + 1],
                   fr.seqClosure, fr.query, b)
     ELSE [s EXCEPT
             !.isSequentialRunning = FALSE,
             !.loading = FALSE,
             !.progress = IdleProgress,
             !.batches = SubSeq(@, 1, at - 1) \o SubSeq(@, at + 1, Len(@))]

\* Lines 343-350: the head of the for loop, entered at the start and again
\* when the awaited analyzeWorkspaceFile has returned.
batchLoop(s, b) ==
  LET at == LoopAt(s, b)
      fr == s.batches[at]
      k == fr.index + 1
  IN IF k <= Len(fr.selectedFiles) /\ ~s.isBatchStopped
     THEN awfStart([s EXCEPT !.batches[at].index = k], fr.selectedFiles[k],
                   fr.seqClosure, fr.query, b)
     ELSE [s EXCEPT
             !.isSequentialRunning = FALSE,
             !.loading = FALSE,
             !.progress = IdleProgress,
             !.batches = SubSeq(@, 1, at - 1) \o SubSeq(@, at + 1, Len(@))]

IsSelectedPending(f) == f.selected /\ f.status # "completed"

FileOf(f) == [id |-> f.id, name |-> f.name, pageCount |-> f.pageCount]

\* Lines 336-346.
analyzeBatchSequential(s, searchQuery) ==
  LET selected == SelectSeq(s.workspace, IsSelectedPending)
      selectedFiles == [i \in DOMAIN selected |-> FileOf(selected[i])]
      b == CHOOSE n \in 1..(Len(s.batches) + 1) : ~IsRunning(s, n)
      fr == [loop |-> b, selectedFiles |-> selectedFiles, index |-> 0,
             seqClosure |-> s.isSequentialRunning, query |-> searchQuery,
             stopped |-> FALSE]
  IN IF Len(selectedFiles) = 0 \/ s.isSequentialRunning THEN s
     ELSE batchLoop([s EXCEPT
                       !.isBatchStopped = FALSE,
                       !.isSequentialRunning = TRUE,
                       !.batches = Append(@, fr)], b)

\* The continuation of `await analyzeWorkspaceFile(file)` in loop owner: a
\* microtask that follows the return of the task in the same job.  before
\* is the state in which the collaborator returned, s the state the task
\* function left.
Resume(before, s, owner) ==
  IF Len(s.tasks) < Len(before.tasks) /\ owner # 0 /\ IsRunning(s, owner)
  THEN batchLoop(s, owner) ELSE s

\* ------------------------------------------------------- selection toggles
\* toggleFileSelection without the test for completed items.
toggleFileSelectionAnyStatus(s, id) ==
  LET Toggle(f) == [f EXCEPT !.selected = ~f.selected]
  IN [s EXCEPT !.workspace = MapItem(@, id, Toggle)]

\* Lines 353-361.
toggleFileSelection(s, id) ==
  LET Toggle(f) == IF f.status = "completed" THEN [f EXCEPT !.selected = FALSE]
                   ELSE [f EXCEPT !.selected = ~f.selected]
  IN [s EXCEPT !.workspace = MapItem(@, id, Toggle)]

IsSelectable(f) == f.status # "completed"

\* toggleAllSelection that always selects.
toggleAllSelectionSelectsAll(s) ==
  LET selectableFiles == SelectSeq(s.workspace, IsSelectable)
      Set(f) == IF f.status = "completed" THEN [f EXCEPT !.selected = FALSE]
                ELSE [f EXCEPT !.selected = TRUE]
  IN IF Len(selectableFiles) = 0 THEN s
     ELSE [s EXCEPT !.workspace = [i \in DOMAIN s.workspace |-> Set(s.workspace[i])]]

\* Lines 363-373.
toggleAllSelection(s) ==
  LET selectableFiles == SelectSeq(s.workspace, IsSelectable)
      allSelectableSelected ==
        \A i \in DOMAIN selectableFiles : selectableFiles[i].selected
      Set(f) == IF f.status = "completed" THEN [f EXCEPT !.selected = FALSE]
                ELSE [f EXCEPT !.selected = ~allSelectableSelected]
  IN IF Len(selectableFiles) = 0 THEN s
     ELSE [s EXCEPT !.workspace = [i \in DOMAIN s.workspace |-> Set(s.workspace[i])]]

\* -------------------------------------------------------------- handleSplit
\* Lines 393-397: up to the await of splitPdf(currentFile, pagesPerPart).
splitStart(s, pagesPerPart) ==
  IF s.currentFile = 0 \/ pagesPerPart = 0 THEN s
  ELSE [s EXCEPT
          !.loading = TRUE,
          !.error = Null,
          !.tasks = Append(@, [Frame("split", "", "", UploadName, s.currentFile,
                                     "split", FALSE, "", "application/pdf", 0)
                                 EXCEPT !.perPart = pagesPerPart])]

\* Lines 398-412: splitPdf resolved with its parts, or rejected.
splitDone(s, t, ok, msg) ==
  LET f == s.tasks[t]
      parts == splitPdf(f.pages, f.perPart)
      n == Len(s.workspace)
      workspaceParts ==
        [i \in 1..Len(parts) |->
           [id |-> UUIDs[n + i], name |-> parts[i].name,
            pageCount |-> parts[i].pageCount, status |-> "idle",
            selected |-> TRUE, results |-> NoResults]]
      s1 == IF ok THEN [s EXCEPT !.workspace = @ \o workspaceParts]
            ELSE [s EXCEPT !.error = MessageOr(msg, "Erro ao dividir PDF.")]
  IN Return([s1 EXCEPT !.loading = FALSE], t)

\* ------------------------------------------------ processFileForExtraction
\* Lines 215-229: up to the first await inside extractTextFromPdf.
pfeStart(s, pages, searchQuery) ==
  [s EXCEPT
     !.activeProcesses = SetActive(@, DIRECT_UPLOAD, TRUE),
     !.loading = TRUE,
     !.groupedData = NoResults,
     !.error = Null,
     !.progress = [current |-> 0, total |-> 0, phase |-> "extracting"],
     !.tasks = Append(@, Frame("pfe", DIRECT_UPLOAD, "", UploadName, pages,
                               "extract", FALSE, searchQuery,
                               "application/pdf", 0))]

\* Lines 255-258.
pfeCatch(s, t, msg) ==
  IF IsActive(s.activeProcesses, s.tasks[t].key)
  THEN [s EXCEPT !.error = MessageOr(msg, "Erro inesperado ao processar o arquivo.")]
  ELSE s

\* Lines 259-265.
pfeFinally(s, t) ==
  LET f == s.tasks[t]
      s1 == IF IsActive(s.activeProcesses, f.key)
            THEN [s EXCEPT !.loading = FALSE,
                           !.progress = IdleProgress,
                           !.activeProcesses = SetActive(@, f.key, FALSE)]
            ELSE s
  IN Return(s1, t)

\* extractTextFromPdf reads one more page, or throws; after the last page the
\* task runs lines 230-234.
pfePage(s, t, ok, msg, blank) ==
  LET f == s.tasks[t]
      s1 == onProgress([s EXCEPT !.tasks[t].page = f.page + 1], t,
                       f.page + 1, f.pages)
  IN IF ~ok THEN pfeFinally(pfeCatch(s, t, msg), t)
     ELSE IF f.page + 1 < f.pages THEN s1
     ELSE IF ~IsActive(s1.activeProcesses, f.key) THEN pfeFinally(s1, t)
     ELSE IF blank
       THEN pfeFinally(pfeCatch(s1, t,
              "O arquivo parece estar vazio ou não contém texto extraível."), t)
     ELSE [s1 EXCEPT
             !.progress = [current |-> 0, total |-> 0, phase |-> "analyzing"],
             !.tasks[t].pc = "analyze",
             !.tasks[t].searchList = f.query]

\* Lines 235-253, then the catch and finally blocks.
pfeAnalyzed(s, t, ok, msg, processes) ==
  LET f == s.tasks[t]
      grouped == [defined |-> TRUE, value |-> Group(processes)]
      newHistoryItem == [name |-> [file |-> f.name, suffix |-> FilterSuffix(f.query)],
                         results |-> grouped.value]
  IN IF ~ok THEN pfeFinally(pfeCatch(s, t, msg), t)
     ELSE IF ~IsActive(s.activeProcesses, f.key) THEN pfeFinally(s, t)
     ELSE pfeFinally([s EXCEPT
                        !.groupedData = grouped,
                        !.history = <<newHistoryItem>> \o @], t)

\* --------------------------------------------------- processModalityForOcr
\* Lines 169-177: up to the await of fileToBase64.
ocrStart(s, mime, searchQuery) ==
  [s EXCEPT
     !.activeProcesses = SetActive(@, DIRECT_OCR, TRUE),
     !.loading = TRUE,
     !.groupedData = NoResults,
     !.error = Null,
     !.progress = [current |-> 1, total |-> 1, phase |-> "analyzing"],
     !.tasks = Append(@, Frame("ocr", DIRECT_OCR, "", UploadName, 0, "base64",
                               FALSE, searchQuery, mime, 0))]

\* Lines 201-204.
ocrCatch(s, t, msg) ==
  IF IsActive(s.activeProcesses, s.tasks[t].key)
  THEN [s EXCEPT !.error =
          MessageOr(msg, "Erro inesperado ao processar o documento via OCR.")]
  ELSE s

\* Lines 205-211.
ocrFinally(s, t) ==
  LET f == s.tasks[t]
      s1 == IF IsActive(s.activeProcesses, f.key)
            THEN [s EXCEPT !.loading = FALSE,
                           !.progress = IdleProgress,
                           !.activeProcesses = SetActive(@, f.key, FALSE)]
            ELSE s
  IN Return(s1, t)

\* fileToBase64 resolves or rejects: lines 177-180.
ocrEncoded(s, t, ok, msg) ==
  LET f == s.tasks[t]
  IN IF ~ok THEN ocrFinally(ocrCatch(s, t, msg), t)
     ELSE IF ~IsActive(s.activeProcesses, f.key) THEN ocrFinally(s, t)
     ELSE [s EXCEPT !.tasks[t].pc = "analyze"]

\* file.type.startsWith('image/')
IsImage(mime) == mime = "image/png"

\* extractLegalDataFromModality resolves or rejects: lines 181-199, then the
\* catch and finally blocks.
ocrAnalyzed(s, t, ok, msg, processes) ==
  LET f == s.tasks[t]
      grouped == [defined |-> TRUE, value |-> Group(processes)]
      newHistoryItem ==
        [name |-> [file |-> f.name,
                   suffix |-> IF IsImage(f.mime) THEN " (OCR Imagem)"
                              ELSE " (OCR PDF)"],
         results |-> grouped.value]
  IN IF ~ok THEN ocrFinally(ocrCatch(s, t, msg), t)
     ELSE IF ~IsActive(s.activeProcesses, f.key) THEN ocrFinally(s, t)
     ELSE ocrFinally([s EXCEPT
                        !.groupedData = grouped,
                        !.history = <<newHistoryItem>> \o @], t)

\* handleFileUpload without the type test of the OCR mode (lines 143-146).
handleFileUploadAnyOcrType(s, toolMode, mime, pages, searchQuery) ==
  LET isPdf == mime = "application/pdf"
  IN IF toolMode = "ocr" THEN ocrStart(s, mime, searchQuery)
     ELSE IF ~isPdf
          THEN [s EXCEPT !.error = "Por favor, anexe um arquivo PDF válido."]
     ELSE LET s1 == [s EXCEPT !.currentFile = pages, !.error = Null]
          IN IF toolMode = "extract" THEN pfeStart(s1, pages, searchQuery)
             ELSE s1

\* --------------------------------------------------------- handleFileUpload
\* Lines 135-166, for a file of type mime with pages pages; in split mode the
\* page count read by getPageCount is only displayed.
handleFileUpload(s, toolMode, mime, pages, searchQuery) ==
  LET isPdf == mime = "application/pdf"
  IN IF toolMode = "ocr"
     THEN IF ~IsImage(mime) /\ ~isPdf
          THEN [s EXCEPT !.error =
                  "Por favor, anexe um arquivo de imagem (JPEG/PNG) ou um PDF para o modo OCR."]
          ELSE ocrStart(s, mime, searchQuery)
     ELSE IF ~isPdf
          THEN [s EXCEPT !.error = "Por favor, anexe um arquivo PDF válido."]
     ELSE LET s1 == [s EXCEPT !.currentFile = pages, !.error = Null]
          IN IF toolMode = "extract" THEN pfeStart(s1, pages, searchQuery)
             ELSE s1

\* ----------------------------------------------------------------- actions
TasksOf(kind, pc) ==
  {t \in DOMAIN tasks : tasks[t].kind = kind /\ tasks[t].pc = pc}

\* A job runs only if the frames it creates stay within the bounds.
Within(s) ==
  /\ Len(s.tasks) <= MaxTasks
  /\ Len(s.batches) <= MaxBatches
  /\ Len(s.workspace) <= MaxItems
  /\ Len(s.history) <= MaxHistory

\* The "Parar" button of a processing item (line 897) and the "Interromper
\* Processo" button shown while loading (lines 1131, 1162).
StopAnalysis ==
  \E id \in {workspace[i].id : i \in {j \in DOMAIN workspace :
                                       workspace[j].status = "processing"}}
            \cup (IF loading THEN {DIRECT_UPLOAD} ELSE {}) :
    Becomes(MarkStopped(stopAnalysis(St, id)))

\* The "Analisar" button of an item that is neither processing nor completed
\* (lines 896-900).
AnalyzeManual ==
  \E i \in DOMAIN workspace, searchQuery \in SearchQueries :
    /\ workspace[i].status \notin {"processing", "completed"}
    /\ LET s2 == awfStart(St, FileOf(workspace[i]), isSequentialRunning,
                          searchQuery, 0)
       IN Within(s2) /\ Becomes(s2)

\* The same button, with or without a filter list typed in.
AnalyzeFiltered ==
  \E i \in DOMAIN workspace, searchQuery \in FilterQueries :
    /\ workspace[i].status \notin {"processing", "completed"}
    /\ LET s2 == awfStart(St, FileOf(workspace[i]), isSequentialRunning,
                          searchQuery, 0)
       IN Within(s2) /\ Becomes(s2)

\* The "Análise Automática" button (line 859).
AnalyzeBatch ==
  \E searchQuery \in SearchQueries :
    LET s2 == analyzeBatchSequential(St, searchQuery)
    IN Within(s2) /\ Becomes(s2)

\* extractTextFromPdf of analyzeWorkspaceFile task t advances or throws.
AwfPageOf(t) ==
  \E ok \in BOOLEAN, msg \in ErrMessages, blank \in BOOLEAN :
    \E before \in {St} :
      \E s1 \in {awfPage(before, t, ok, msg, blank)} :
        \E s2 \in {Resume(before, s1, tasks[t].owner)} :
          Within(s2) /\ Becomes(s2)

AwfPage == \E t \in TasksOf("awf", "extract") : AwfPageOf(t)

\* extractLegalData of analyzeWorkspaceFile task t resolves or rejects.
AwfAnalyzedOf(t) ==
  \E ok \in BOOLEAN, msg \in ErrMessages, processes \in Extractions :
    \E before \in {St} :
      \E s1 \in {awfAnalyzed(before, t, ok, msg, processes)} :
        \E s2 \in {Resume(before, s1, tasks[t].owner)} :
          Within(s2) /\ Becomes(s2)

AwfAnalyzed == \E t \in TasksOf("awf", "analyze") : AwfAnalyzedOf(t)

\* The file input (line 1097), with a PDF to be split.
Upload ==
  \E toolMode \in SplitModes, pages \in PageCounts, searchQuery \in SearchQueries :
    LET s2 == handleFileUpload(St, toolMode, "application/pdf", pages, searchQuery)
    IN Within(s2) /\ Becomes(s2)

\* The file input, with a file of any type to be analysed at once.
UploadTask ==
  \E toolMode \in TaskModes, mime \in FileTypes, pages \in PageCounts,
     searchQuery \in SearchQueries :
    LET s2 == handleFileUpload(St, toolMode, mime, pages, searchQuery)
    IN Within(s2) /\ Becomes(s2)

\* The values of toolMode (line 11).
ToolModes == {"extract", "split", "consolidated", "ocr"}

\* The file input, with a file of any type in any mode.
UploadFile ==
  \E toolMode \in ToolModes, mime \in FileTypes, pages \in PageCounts,
     searchQuery \in SearchQueries :
    LET s2 == handleFileUpload(St, toolMode, mime, pages, searchQuery)
    IN Within(s2) /\ Becomes(s2)

\* The file input in the extract mode, with a PDF, with or without a filter
\* list typed in.
UploadFiltered ==
  \E pages \in PageCounts, searchQuery \in FilterQueries :
    LET s2 == handleFileUpload(St, "extract", "application/pdf", pages,
                               searchQuery)
    IN Within(s2) /\ Becomes(s2)

\* The file input in the extract mode, with a PDF.
UploadExtract ==
  \E pages \in PageCounts, searchQuery \in SearchQueries :
    LET s2 == handleFileUpload(St, "extract", "application/pdf", pages,
                               searchQuery)
    IN Within(s2) /\ Becomes(s2)

PfePage ==
  \E t \in TasksOf("pfe", "extract") :
    \E ok \in BOOLEAN, msg \in ErrMessages, blank \in BOOLEAN :
      Becomes(pfePage(St, t, ok, msg, blank))

PfeAnalyzed ==
  \E t \in TasksOf("pfe", "analyze") :
    \E ok \in BOOLEAN, msg \in ErrMessages, processes \in Extractions :
      Becomes(pfeAnalyzed(St, t, ok, msg, processes))

OcrEncoded ==
  \E t \in TasksOf("ocr", "base64") :
    \E ok \in BOOLEAN, msg \in ErrMessages :
      Becomes(ocrEncoded(St, t, ok, msg))

OcrAnalyzed ==
  \E t \in TasksOf("ocr", "analyze") :
    \E ok \in BOOLEAN, msg \in ErrMessages, processes \in Extractions :
      Becomes(ocrAnalyzed(St, t, ok, msg, processes))

\* The checkbox of an item (line 891).
ToggleFile ==
  \E i \in DOMAIN workspace : Becomes(toggleFileSelection(St, workspace[i].id))

\* The "Selecionar/Desmarcar Pendentes" button (line 874).
ToggleAll == Becomes(toggleAllSelection(St))

\* The "Gerar Divisões" button, disabled while loading (line 1125).
SplitStart ==
  \E pagesPerPart \in PagesPerPartInputs :
    /\ ~loading
    /\ currentFile # 0
    /\ Len(workspace) + Len(splitPdf(currentFile, pagesPerPart)) <= MaxItems
    /\ LET s2 == splitStart(St, pagesPerPart)
       IN Within(s2) /\ Becomes(s2)

\* splitPdf resolves or rejects.
SplitDone ==
  \E t \in TasksOf("split", "split") :
    \E ok \in BOOLEAN, msg \in ErrMessages :
      LET s2 == splitDone(St, t, ok, msg)
      IN Within(s2) /\ Becomes(s2)

\* ------------------------------------------------------ simulated progress
\* Math.floor(Math.random() * 5) + 1
Increments == 1..5

\* A tick that stops adding only from 98 on.
tickLateCap(prev, r) == IF prev >= 98 THEN prev ELSE prev + r

\* The updater of the interval callback (lines 93-96).
tick(prev, r) == IF prev >= 92 THEN prev ELSE prev + r

\* The interval set at line 92 fires: it is armed from the render in which
\* progress.phase became 'analyzing' to the render in which it changes.
Tick ==
  /\ app.phase = "ready"
  /\ progress.phase = "analyzing"
  /\ \E r \in Increments : simulatedProgress' = tick(simulatedProgress, r)
  /\ UNCHANGED <<workspace, history, groupedData, loading, progress, error,
                 isSequentialRunning, isBatchStopped, activeProcesses,
                 currentFile, tasks, batches, storage, app, pure>>

\* The extraction of an uploaded document and stop, with the interval of
\* the analyzing phase.
NextProgress ==
  \/ UploadExtract
  \/ PfePage
  \/ PfeAnalyzed
  \/ StopAnalysis
  \/ Tick

SpecProgress == Init /\ [][NextProgress]_vars

\* ------------------------------------------------- the loop of splitPdf
MaxDescent == 12  \* how far below 0 the loop index of splitPdf is followed

\* What the user types into the "Páginas por Bloco" input (type number; its
\* min attribute does not keep a typed value out): nothing, or an integer.
TypedValues ==
  {[kind |-> "empty", n |-> 0]} \cup {[kind |-> "int", n |-> n] : n \in {-3, -2, -1, 0, 2, 3}}

\* parseInt(e.target.value) || 1 (line 1121): NaN and 0 are falsy.
PagesPerPartOf(typed) ==
  IF typed.kind = "empty" \/ typed.n = 0 THEN 1 ELSE typed.n

\* The "Gerar Divisões" button after the input handler has stored the typed
\* value: handleSplit up to the first iteration of the loop of splitPdf.
SplitTyped ==
  \E typed \in TypedValues :
    LET pagesPerPart == PagesPerPartOf(typed)
    IN /\ ~loading
       /\ currentFile # 0
       /\ pagesPerPart > 0 =>
            Len(workspace) + Len(splitPdf(currentFile, pagesPerPart)) <= MaxItems
       /\ \E s2 \in {splitStart(St, pagesPerPart)} :
            Within(s2) /\ s2 # St /\ Becomes(s2)

\* One iteration of the loop of splitPdf (lines 50-65) in frame t, whose
\* field page holds i: the test i < totalPages, the part, and i +=
\* pagesPerPart. Every i at or below -MaxDescent is kept as -MaxDescent: the
\* test holds for each of them alike, and nothing else reads i.
splitIteration(s, t) ==
  [s EXCEPT !.tasks[t].page =
     IF @ + s.tasks[t].perPart < -MaxDescent THEN -MaxDescent
     ELSE @ + s.tasks[t].perPart]

SplitIterationOf(t) ==
  /\ t \in TasksOf("split", "split")
  /\ tasks[t].page < tasks[t].pages
  /\ Becomes(splitIteration(St, t))

SplitIteration == \E t \in DOMAIN tasks : SplitIterationOf(t)

\* The test i < totalPages fails: splitPdf returns its parts and handleSplit
\* runs to the end of its finally block.
SplitReturnsOf(t) ==
  /\ t \in TasksOf("split", "split")
  /\ ~(tasks[t].page < tasks[t].pages)
  /\ \E s2 \in {splitDone(St, t, TRUE, "")} : Within(s2) /\ Becomes(s2)

SplitReturns == \E t \in DOMAIN tasks : SplitReturnsOf(t)

\* A call made by splitPdf (lines 45-59) rejects: handleSplit runs its catch
\* and finally blocks.
SplitRejects ==
  \E t \in TasksOf("split", "split"), msg \in ErrMessages :
    Becomes(splitDone(St, t, FALSE, msg))

\* handleSplit with the loop of splitPdf taken one iteration at a time.
NextSplitLoop ==
  \/ Upload
  \/ SplitTyped
  \/ SplitIteration
  \/ SplitReturns
  \/ SplitRejects

\* pdf-lib answers every call of an iteration, and the event loop runs the
\* continuation of each settled promise; nothing makes a call reject.
SpecSplitLoop ==
  /\ Init
  /\ [][NextSplitLoop]_vars
  /\ \A t \in 1..MaxTasks :
       WF_vars(SplitIterationOf(t)) /\ WF_vars(SplitReturnsOf(t))

\* ------------------------------------------------------- history and slot
\* A clear-all that removes only the newest entry.
clearHistoryDropsNewest(s) ==
  [s EXCEPT !.history = IF @ = <<>> THEN @ ELSE Tail(@)]

\* "Limpar Histórico", confirmed (line 984).
clearHistory(s) == [s EXCEPT !.history = <<>>]

ClearHistory == Becomes(clearHistory(St))

\* What the slot may hold when the application is first started: nothing,
\* text that does not parse, JSON that is not a list of history entries, or
\* a list a former run saved.
SavedEntries ==
  {[name |-> [file |-> UploadName, suffix |-> ""],
    results |-> <<[foro |-> "Jaboticabal", processos |-> <<"p1">>]>>]}

SavedLists == UNION {[1..n -> SavedEntries] : n \in 0..MaxSaved}

Slots ==
  {[kind |-> k, items |-> <<>>] : k \in {"missing", "corrupt", "other"}}
    \cup {Saved(h) : h \in SavedLists}

InitPersist ==
  /\ Fresh
  /\ storage \in Slots
  /\ app = [phase |-> "off", boot |-> "missing", loaded |-> <<>>]
  /\ pure = NoCall

\* The first render (history = []) and its two effects, in order: the load
\* effect (lines 48-57) calls setHistory(JSON.parse(saved)) if the slot holds
\* text that parses, and the save effect (lines 59-61) writes the history of
\* this render, [], to the slot.
Mount ==
  /\ app.phase = "off"
  /\ app' = IF storage.kind \in {"missing", "corrupt"}
            THEN [phase |-> "ready", boot |-> storage.kind, loaded |-> <<>>]
            ELSE [phase |-> "mounted", boot |-> storage.kind,
                  loaded |-> storage.items]
  /\ storage' = Saved(<<>>)
  /\ UNCHANGED <<workspace, history, groupedData, loading, progress, error,
                 isSequentialRunning, isBatchStopped, activeProcesses,
                 currentFile, tasks, batches, pure, simulatedProgress>>

\* The render that the setHistory of the load effect asked for: globalForos
\* (lines 64-74) walks history and throws if it is not a list of entries;
\* otherwise the save effect writes the loaded history.
Rendered ==
  /\ app.phase = "mounted"
  /\ IF app.boot = "other"
     THEN /\ app' = [app EXCEPT !.phase = "crashed"]
          /\ UNCHANGED <<history, storage>>
     ELSE /\ app' = [app EXCEPT !.phase = "ready"]
          /\ history' = app.loaded
          /\ storage' = Saved(app.loaded)
  /\ UNCHANGED <<workspace, groupedData, loading, progress, error,
                 isSequentialRunning, isBatchStopped, activeProcesses,
                 currentFile, tasks, batches, pure, simulatedProgress>>

\* The page is closed or reloaded: the component state is gone, the slot
\* stays.
Restart ==
  /\ app.phase # "off"
  /\ app' = [phase |-> "off", boot |-> "missing", loaded |-> <<>>]
  /\ workspace' = <<>>
  /\ history' = <<>>
  /\ groupedData' = NoResults
  /\ loading' = FALSE
  /\ progress' = IdleProgress
  /\ error' = Null
  /\ isSequentialRunning' = FALSE
  /\ isBatchStopped' = FALSE
  /\ activeProcesses' = [k \in {} |-> FALSE]
  /\ currentFile' = 0
  /\ tasks' = <<>>
  /\ batches' = <<>>
  /\ simulatedProgress' = 0
  /\ UNCHANGED <<storage, pure>>

\* Startup, direct uploads, clear-all and restart.
NextPersist ==
  \/ Mount
  \/ Rendered
  \/ Restart
  \/ UploadTask
  \/ PfePage
  \/ PfeAnalyzed
  \/ ClearHistory
  \/ StopAnalysis

SpecPersist == InitPersist /\ [][NextPersist]_vars

\* The workspace: split, manual analysis, batch, stop and selection.
Next ==
  \/ StopAnalysis
  \/ AnalyzeManual
  \/ AnalyzeBatch
  \/ AwfPage
  \/ AwfAnalyzed
  \/ ToggleFile
  \/ ToggleAll
  \/ Upload
  \/ SplitStart
  \/ SplitDone

Spec == Init /\ [][Next]_vars

\* Direct uploads: extraction and OCR of a whole document, and stop.
NextUpload ==
  \/ UploadTask
  \/ PfePage
  \/ PfeAnalyzed
  \/ OcrEncoded
  \/ OcrAnalyzed
  \/ StopAnalysis

SpecUpload == Init /\ [][NextUpload]_vars

\* The file input in every mode with every file type, the tasks it starts,
\* and stop.
NextIntake ==
  \/ UploadFile
  \/ PfePage
  \/ PfeAnalyzed
  \/ OcrEncoded
  \/ OcrAnalyzed
  \/ StopAnalysis

SpecIntake == Init /\ [][NextIntake]_vars

\* Every task that calls extractTextFromPdf and extractLegalData: the
\* analysis of a workspace item started by hand and the extraction of an
\* uploaded document, with split and stop.
NextTasks ==
  \/ Upload
  \/ SplitStart
  \/ SplitDone
  \/ AnalyzeManual
  \/ AwfPage
  \/ AwfAnalyzed
  \/ UploadExtract
  \/ PfePage
  \/ PfeAnalyzed
  \/ StopAnalysis

SpecTasks == Init /\ [][NextTasks]_vars

\* The same tasks, started with and without a filter list and left to run.
NextFilter ==
  \/ Upload
  \/ SplitStart
  \/ SplitDone
  \/ AnalyzeFiltered
  \/ AwfPage
  \/ AwfAnalyzed
  \/ UploadFiltered
  \/ PfePage
  \/ PfeAnalyzed

SpecFilter == Init /\ [][NextFilter]_vars

\* The workspace together with the clear-all of the history.
NextHistory ==
  \/ Next
  \/ ClearHistory

SpecHistory == Init /\ [][NextHistory]_vars

\* The collaborator call that the function of frame t awaits returns.
TaskReturns(t) ==
  /\ t \in DOMAIN tasks
  /\ \/ t \in TasksOf("awf", "extract") /\ AwfPageOf(t)
     \/ t \in TasksOf("awf", "analyze") /\ AwfAnalyzedOf(t)

\* Upload, split, manual and batch analysis and stop.  The selection toggles
\* are left out: split parts are created selected, and a loop walks the
\* snapshot it took at line 337 whatever the selection becomes afterwards.
NextLive ==
  \/ StopAnalysis
  \/ AnalyzeManual
  \/ AnalyzeBatch
  \/ AwfPage
  \/ AwfAnalyzed
  \/ Upload
  \/ SplitStart
  \/ SplitDone

\* Collaborators that answer every call: extractTextFromPdf and
\* extractLegalData eventually resolve or reject each pending call, and the
\* event loop runs the continuation of each settled promise.
SpecLive ==
  Init /\ [][NextLive]_vars /\ \A t \in 1..MaxTasks : WF_vars(TaskReturns(t))

\* ---------------------------------------------------- the pure functions
\* Foro and processo values of the records the collaborator may return.
Foros == {"Jaboticabal", "2", "1"}
Processos == {"p1", "p2"}
LegalProcesses == [foro : Foros, processo : Processos]
ProcessLists == UNION {[1..n -> LegalProcesses] : n \in 0..MaxProcesses}

InitGroup ==
  /\ Fresh
  /\ storage = Saved(<<>>)
  /\ app = Running
  /\ pure \in {[fn |-> "group", args |-> ps, result |-> <<>>, done |-> FALSE] :
                ps \in ProcessLists}

\* The grouping block of a task function runs on extracted.processes.
GroupCall ==
  /\ pure.fn = "group" /\ ~pure.done
  /\ pure' = [pure EXCEPT !.result = Group(pure.args), !.done = TRUE]
  /\ UNCHANGED <<workspace, history, groupedData, loading, progress, error,
                 isSequentialRunning, isBatchStopped, activeProcesses,
                 currentFile, tasks, batches, storage, app,
                 simulatedProgress>>

SpecGroup == InitGroup /\ [][GroupCall]_vars

InitSplit ==
  /\ Fresh
  /\ storage = Saved(<<>>)
  /\ app = Running
  /\ pure \in {[fn |-> "splitPdf", args |-> <<n, per>>, result |-> <<>>,
                 done |-> FALSE] : n \in 0..MaxPages, per \in 1..MaxPerPart}

\* splitPdf runs on a document of args[1] pages with pagesPerPart args[2].
SplitPdfCall ==
  /\ pure.fn = "splitPdf" /\ ~pure.done
  /\ pure' = [pure EXCEPT !.result = splitPdf(pure.args[1], pure.args[2]),
                          !.done = TRUE]
  /\ UNCHANGED <<workspace, history, groupedData, loading, progress, error,
                 isSequentialRunning, isBatchStopped, activeProcesses,
                 currentFile, tasks, batches, storage, app,
                 simulatedProgress>>

SpecSplit == InitSplit /\ [][SplitPdfCall]_vars

\* ----------------------------------------------------- the service answers
\* A JSON value the service may answer with: null, an object without
\* processes, or an object with a list of processes.
JNull == [type |-> "null", processes |-> <<>>]
JEmptyObject == [type |-> "object", processes |-> <<>>]
JResult(ps) == [type |-> "result", processes |-> ps]
JsonValues == {JNull, JEmptyObject} \cup {JResult(ps) : ps \in ProcessLists}

\* response.text: undefined ("missing"), '' ("empty"), only white space
\* ("blank"), text that JSON.parse rejects ("garbage"), or JSON text.
ResponseTexts ==
  {[kind |-> k, json |-> JNull] : k \in {"missing", "empty", "blank", "garbage"}}
    \cup {[kind |-> "json", json |-> j] : j \in JsonValues}

\* response.text?.trim() || '{"processes":[]}'
ResultStr(text) ==
  IF text.kind \in {"missing", "empty", "blank"}
  THEN [kind |-> "json", json |-> JResult(<<>>)]
  ELSE text

\* Lines 58-60 without the try block: JSON.parse throws out of the function.
extractLegalDataNoTry(text) ==
  LET resultStr == ResultStr(text)
  IN IF resultStr.kind = "json"
     THEN [stage |-> "returned", raised |-> FALSE, value |-> resultStr.json]
     ELSE [stage |-> "returned", raised |-> TRUE, value |-> JNull]

\* Lines 58-64 of extractLegalData, once generateContent has resolved.
extractLegalData(text) ==
  LET resultStr == ResultStr(text)
  IN IF resultStr.kind = "json"
     THEN [stage |-> "returned", raised |-> FALSE, value |-> resultStr.json]
     ELSE [stage |-> "returned", raised |-> FALSE, value |-> JResult(<<>>)]

\* Lines 96-102 of extractLegalDataFromModality.
extractLegalDataFromModality(text) ==
  LET resultStr == ResultStr(text)
  IN IF resultStr.kind = "json"
     THEN [stage |-> "returned", raised |-> FALSE, value |-> resultStr.json]
     ELSE [stage |-> "returned", raised |-> FALSE, value |-> JResult(<<>>)]

\* The grouping block of the calling task (lines 237-243, 183-189, 298-304)
\* on what the function returned: extracted.processes throws a TypeError on
\* null, and an absent or empty list leaves grouped = {}.
GroupingBlock(extracted) ==
  IF extracted.type = "null" THEN [threw |-> TRUE, grouped |-> <<>>]
  ELSE IF extracted.type = "object" \/ Len(extracted.processes) = 0
       THEN [threw |-> FALSE, grouped |-> <<>>]
  ELSE [threw |-> FALSE, grouped |-> Group(extracted.processes)]

InitParse ==
  /\ Fresh
  /\ storage = Saved(<<>>)
  /\ app = Running
  /\ pure \in {[fn |-> f, args |-> <<text>>, result |-> [stage |-> "called"],
                 done |-> FALSE] :
                f \in {"extractLegalData", "extractLegalDataFromModality"},
                text \in ResponseTexts}

\* generateContent has resolved with response.text = args[1]; the function
\* runs to its end.
ParseCall ==
  /\ pure.fn \in {"extractLegalData", "extractLegalDataFromModality"}
  /\ pure.result.stage = "called"
  /\ pure' = [pure EXCEPT !.result =
                IF pure.fn = "extractLegalData"
                THEN extractLegalData(pure.args[1])
                ELSE extractLegalDataFromModality(pure.args[1])]
  /\ UNCHANGED <<workspace, history, groupedData, loading, progress, error,
                 isSequentialRunning, isBatchStopped, activeProcesses,
                 currentFile, tasks, batches, storage, app,
                 simulatedProgress>>

\* The calling task resumes with what the function returned and runs its
\* grouping block.
GroupingCall ==
  /\ pure.fn \in {"extractLegalData", "extractLegalDataFromModality"}
  /\ pure.result.stage = "returned"
  /\ ~pure.result.raised
  /\ LET g == GroupingBlock(pure.result.value)
     IN pure' = [pure EXCEPT !.result = [stage |-> "grouped", raised |-> FALSE,
                                         value |-> pure.result.value,
                                         threw |-> g.threw,
                                         grouped |-> g.grouped],
                             !.done = TRUE]
  /\ UNCHANGED <<workspace, history, groupedData, loading, progress, error,
                 isSequentialRunning, isBatchStopped, activeProcesses,
                 currentFile, tasks, batches, storage, app,
                 simulatedProgress>>

NextParse ==
  \/ ParseCall
  \/ GroupingCall

SpecParse == InitParse /\ [][NextParse]_vars

\* ------------------------------------------------ the consolidated download
MaxGrouped == 2   \* records behind the results of one history entry

\* The results a history entry may hold, and the histories made of them.
GroupedResults ==
  {Group(ps) : ps \in UNION {[1..n -> LegalProcesses] : n \in 0..MaxGrouped}}

ResultHistories ==
  UNION {[1..n -> [name : {[file |-> UploadName, suffix |-> ""]},
                   results : GroupedResults]] : n \in 0..MaxHistory}

\* consolidatedSelection: a Set<string>, as the sequence of its members in
\* insertion order.
Selections ==
  {sel \in UNION {[1..n -> Foros] : n \in 0..Cardinality(Foros)} :
     \A i, j \in DOMAIN sel : i # j => sel[i] # sel[j]}

\* set.add(x) on a Set held as the sequence of its members.
SetAdd(members, x) ==
  IF \E i \in DOMAIN members : members[i] = x THEN members
  ELSE Append(members, x)

RECURSIVE SetAddAll(_, _)
SetAddAll(members, xs) ==
  IF xs = <<>> THEN members
  ELSE SetAddAll(SetAdd(members, Head(xs)), Tail(xs))

HasKey(map, foro) == \E i \in DOMAIN map : map[i].foro = foro

ValueOf(map, foro) ==
  map[CHOOSE i \in DOMAIN map : map[i].foro = foro].processos

\* Lines 67-71 for the entries of one history item: map[foro] is created
\* when absent and receives the processos of the entry.
RECURSIVE EntriesFold(_, _)
EntriesFold(entries, map) ==
  IF entries = <<>> THEN map
  ELSE LET e == Head(entries)
           m1 == IF HasKey(map, e.foro) THEN map ELSE AddKey(map, e.foro)
           m2 == [i \in DOMAIN m1 |->
                    IF m1[i].foro = e.foro
                    THEN [m1[i] EXCEPT !.processos = SetAddAll(@, e.processos)]
                    ELSE m1[i]]
       IN EntriesFold(Tail(entries), m2)

\* Lines 64-74: the procesos sets of globalForos (docs is not modelled).
RECURSIVE GlobalFold(_, _)
GlobalFold(items, map) ==
  IF items = <<>> THEN map
  ELSE GlobalFold(Tail(items), EntriesFold(Head(items).results, map))

globalForos(hist) == GlobalFold(hist, <<>>)

\* Lines 505-509, keeping a selected foro that globalForos does not have.
RECURSIVE MergeFoldKeepsMissing(_, _, _)
MergeFoldKeepsMissing(selection, global, merged) ==
  IF selection = <<>> THEN merged
  ELSE LET foro == Head(selection)
           m1 == IF HasKey(merged, foro) THEN merged ELSE AddKey(merged, foro)
           m2 == [i \in DOMAIN m1 |->
                    IF m1[i].foro = foro /\ HasKey(global, foro)
                    THEN [m1[i] EXCEPT !.processos = ValueOf(global, foro)]
                    ELSE m1[i]]
       IN MergeFoldKeepsMissing(Tail(selection), global, m2)

\* Lines 505-509: merged[foro] = Array.from(globalForos[foro].procesos) for
\* each selected foro that globalForos has.
RECURSIVE MergeFold(_, _, _)
MergeFold(selection, global, merged) ==
  IF selection = <<>> THEN merged
  ELSE LET foro == Head(selection)
           m1 == IF HasKey(merged, foro) THEN merged ELSE AddKey(merged, foro)
           m2 == [i \in DOMAIN m1 |->
                    IF m1[i].foro = foro
                    THEN [m1[i] EXCEPT !.processos = ValueOf(global, foro)]
                    ELSE m1[i]]
       IN IF HasKey(global, foro)
          THEN MergeFold(Tail(selection), global, m2)
          ELSE MergeFold(Tail(selection), global, merged)

\* Lines 502-516, up to the call of downloadResults or downloadResultsAsPdf.
downloadConsolidatedSelection(selection, hist) ==
  IF Len(selection) = 0 THEN [downloaded |-> FALSE, merged |-> <<>>]
  ELSE [downloaded |-> TRUE,
        merged |-> MergeFold(selection, globalForos(hist), <<>>)]

InitConsolidated ==
  /\ Fresh
  /\ storage = Saved(<<>>)
  /\ app = Running
  /\ pure \in {[fn |-> "downloadConsolidatedSelection", args |-> <<sel, h>>,
                 result |-> [downloaded |-> FALSE, merged |-> <<>>],
                 done |-> FALSE] :
                sel \in Selections, h \in ResultHistories}

\* The download button of the consolidated view, with selection args[1] and
\* history args[2].
ConsolidatedCall ==
  /\ pure.fn = "downloadConsolidatedSelection" /\ ~pure.done
  /\ pure' = [pure EXCEPT
                !.result = downloadConsolidatedSelection(pure.args[1],
                                                         pure.args[2]),
                !.done = TRUE]
  /\ UNCHANGED <<workspace, history, groupedData, loading, progress, error,
                 isSequentialRunning, isBatchStopped, activeProcesses,
                 currentFile, tasks, batches, storage, app,
                 simulatedProgress>>

SpecConsolidated == InitConsolidated /\ [][ConsolidatedCall]_vars

\* ------------------------------------------------------- the text report
\* filterForos: absent, or a Set of foro names.
NoFilter == [given |-> FALSE, foros |-> {}]
ForoFilters == {NoFilter} \cup {[given |-> TRUE, foros |-> S] : S \in SUBSET Foros}

\* A line of the report, ended by '\n': what is written before the value,
\* and the value.
Line(prefix, value) == [prefix |-> prefix, value |-> value]

\* Lines 425-427: the title, the date, the rule and an empty line.
ReportHeader ==
  <<Line("ANÁLISE DE PROCESSOS - ", "name"), Line("Data: ", "date"),
    Line("=====================================", ""), Line("", "")>>

ProcessoLines(processos) ==
  [i \in DOMAIN processos |-> Line("  - ", processos[i])]

\* filterForos && !filterForos.has(foro), with an empty Set taken for no
\* filter.
SkipsUnlessEmpty(filterForos, foro) ==
  filterForos.given /\ filterForos.foros # {} /\ foro \notin filterForos.foros

\* filterForos && !filterForos.has(foro): a Set is truthy even when empty.
Skips(filterForos, foro) == filterForos.given /\ foro \notin filterForos.foros

\* Lines 429-434: Object.entries(results).forEach.
RECURSIVE ReportFold(_, _, _)
ReportFold(entries, filterForos, text) ==
  IF entries = <<>> THEN text
  ELSE LET e == Head(entries)
       IN IF Skips(filterForos, e.foro)
          THEN ReportFold(Tail(entries), filterForos, text)
          ELSE ReportFold(Tail(entries), filterForos,
                          text \o <<Line("FORO: ", e.foro)>>
                               \o ProcessoLines(e.processos)
                               \o <<Line("", "")>>)

\* Lines 424-434: the text handed to the Blob.
downloadResults(results, filterForos) ==
  ReportFold(results, filterForos, ReportHeader)

InitReport ==
  /\ Fresh
  /\ storage = Saved(<<>>)
  /\ app = Running
  /\ pure \in {[fn |-> "downloadResults", args |-> <<Group(ps), flt>>,
                 result |-> <<>>, done |-> FALSE] :
                ps \in ProcessLists, flt \in ForoFilters}

\* A download button, with results args[1] and filter args[2].
ReportCall ==
  /\ pure.fn = "downloadResults" /\ ~pure.done
  /\ pure' = [pure EXCEPT !.result = downloadResults(pure.args[1], pure.args[2]),
                          !.done = TRUE]
  /\ UNCHANGED <<workspace, history, groupedData, loading, progress, error,
                 isSequentialRunning, isBatchStopped, activeProcesses,
                 currentFile, tasks, batches, storage, app,
                 simulatedProgress>>

SpecReport == InitReport /\ [][ReportCall]_vars

\* ------------------------------------------------------------------ claims
ItemAt(ws, id) == CHOOSE i \in DOMAIN ws : ws[i].id = id

\* C1: a task cancelled by stopAnalysis while it waits for extractLegalData
\* never sets its item to completed or error and never appends a
\* HistoryEntry, whatever the user starts before the call returns.
C1_CancelledTaskCommitsNothing ==
  [][\A t \in TasksOf("awf", "analyze") :
       (tasks[t].cancelledAt = "analyze" /\ AwfAnalyzedOf(t)) =>
         LET i == ItemAt(workspace, tasks[t].fileId)
         IN /\ history' = history
            /\ \/ workspace'[i].status = workspace[i].status
               \/ workspace'[i].status \notin {"completed", "error"}]_vars

\* C2: every completed item has results, every item in error has none.
C2_StatusMatchesResults ==
  \A i \in DOMAIN workspace :
    /\ workspace[i].status = "completed" => workspace[i].results.defined
    /\ workspace[i].status = "error" => ~workspace[i].results.defined

\* C3: at most one batch loop has passed its guard and not left its loop, and
\* an invocation of analyzeBatchSequential with nothing selected and pending,
\* or while a batch is running, changes no state.
C3_AtMostOneBatchLoop ==
  /\ Len(batches) <= 1
  /\ \A q \in SearchQueries :
       (SelectSeq(workspace, IsSelectedPending) = <<>> \/ isSequentialRunning)
         => analyzeBatchSequential(St, q) = St

\* C4: once stopAnalysis was invoked while a batch loop was running, that
\* loop passes no further item to analyzeWorkspaceFile.
C4_StoppedLoopStartsNothing ==
  [][\A i \in DOMAIN batches : \A j \in DOMAIN batches' :
       (batches[i].stopped /\ batches'[j].loop = batches[i].loop)
         => batches'[j].index = batches[i].index]_vars

\* C5: in the state that stopAnalysis leaves, called with any id from any
\* state: no item is processing (each that was is idle, the others keep
\* their status), every registry entry is false, the batch stop flag is set,
\* isSequentialRunning and loading are false, progress is {0,0,idle} and
\* error is null.
C5_StopPostcondition ==
  \A id \in {DIRECT_UPLOAD, DIRECT_OCR} \cup {workspace[i].id : i \in DOMAIN workspace} :
    LET s == stopAnalysis(St, id)
    IN /\ DOMAIN s.workspace = DOMAIN workspace
       /\ \A i \in DOMAIN workspace :
            /\ s.workspace[i].status # "processing"
            /\ s.workspace[i].status =
                 (IF workspace[i].status = "processing" THEN "idle"
                  ELSE workspace[i].status)
       /\ DOMAIN s.activeProcesses = DOMAIN activeProcesses
       /\ \A k \in DOMAIN s.activeProcesses : ~s.activeProcesses[k]
       /\ s.isBatchStopped
       /\ ~s.isSequentialRunning
       /\ ~s.loading
       /\ s.progress = IdleProgress
       /\ s.error = Null

\* A stop has just found a batch item being analysed: the loop and its task
\* are still there, the item is idle again and everything is reset.
C5_Witness ==
  /\ \E t \in DOMAIN tasks : tasks[t].cancelledAt # "" /\ tasks[t].owner # 0
  /\ \E i \in DOMAIN batches : batches[i].stopped
  /\ isBatchStopped /\ ~loading /\ ~isSequentialRunning
  /\ progress = IdleProgress /\ error = Null
  /\ \A k \in DOMAIN activeProcesses : ~activeProcesses[k]
  /\ \A i \in DOMAIN workspace : workspace[i].status = "idle"

Shared(s) ==
  <<s.workspace, s.history, s.groupedData, s.error, s.loading, s.progress,
    s.activeProcesses>>

\* C6: a task that finds its cancellation flag false at a checkpoint (after
\* content extraction, after the collaborator call) writes no shared state
\* from then on, its finally block included.
C6_NoWriteAfterFailedCheck ==
  \A t \in DOMAIN tasks :
    LET f == tasks[t]
    IN ~IsActive(activeProcesses, f.key) =>
         /\ (f.kind = "awf" /\ f.pc = "analyze") =>
              \A p \in Extractions :
                Shared(awfAnalyzed(St, t, TRUE, "", p)) = Shared(St)
         /\ (f.kind = "awf" /\ f.pc = "extract" /\ f.page + 1 = f.pages) =>
              \A blank \in BOOLEAN :
                Shared(awfPage(St, t, TRUE, "", blank)) = Shared(St)
         /\ (f.kind = "pfe" /\ f.pc = "analyze") =>
              \A p \in Extractions :
                Shared(pfeAnalyzed(St, t, TRUE, "", p)) = Shared(St)
         /\ (f.kind = "pfe" /\ f.pc = "extract" /\ f.page + 1 = f.pages) =>
              \A blank \in BOOLEAN :
                Shared(pfePage(St, t, TRUE, "", blank)) = Shared(St)
         /\ (f.kind = "ocr" /\ f.pc = "analyze") =>
              \A p \in Extractions :
                Shared(ocrAnalyzed(St, t, TRUE, "", p)) = Shared(St)
         /\ (f.kind = "ocr" /\ f.pc = "base64") =>
              Shared(ocrEncoded(St, t, TRUE, "")) = Shared(St)

OwnedBy(ts, b) == {t \in DOMAIN ts : ts[t].owner = b}

\* C7: a batch loop attempts the items that were selected and not completed
\* when it started, in workspace listing order, one at a time: it awaits
\* exactly one analyzeWorkspaceFile call, the one for the item at its index,
\* and moves to the next item, which then enters processing, only when that
\* call has returned.
C7_BatchOneItemAtATimeInOrder ==
  [][\A j \in DOMAIN batches' :
       LET fr == batches'[j]
           was == {i \in DOMAIN batches : batches[i].loop = fr.loop}
           mine == OwnedBy(tasks', fr.loop)
           pending == SelectSeq(workspace, IsSelectedPending)
       IN /\ fr.index \in 1..Len(fr.selectedFiles)
          /\ \E t \in mine :
               /\ mine = {t}
               /\ tasks'[t].fileId = fr.selectedFiles[fr.index].id
          /\ was = {} =>
               /\ fr.index = 1
               /\ fr.selectedFiles = [k \in DOMAIN pending |-> FileOf(pending[k])]
          /\ \A i \in was :
               /\ fr.selectedFiles = batches[i].selectedFiles
               /\ fr.index \in {batches[i].index, batches[i].index + 1}
               /\ fr.index = batches[i].index + 1 =>
                    /\ \A t \in OwnedBy(tasks, fr.loop) :
                         \A u \in mine : tasks'[u] # tasks[t]
                    /\ workspace'[ItemAt(workspace', fr.selectedFiles[fr.index].id)].status
                         = "processing"]_vars

\* A loop has reached the second of its two items.
C7_Witness ==
  \E j \in DOMAIN batches :
    /\ batches[j].index = 2
    /\ Len(batches[j].selectedFiles) = 2
    /\ \E t \in DOMAIN tasks :
         /\ tasks[t].owner = batches[j].loop
         /\ tasks[t].fileId = batches[j].selectedFiles[2].id
    /\ workspace[2].status = "processing"
    /\ workspace[1].status = "completed"

\* C8: no item goes from completed to processing, and a completed item never
\* leaves the completed status.
C8_CompletedStaysCompleted ==
  [][\A i \in DOMAIN workspace :
       workspace[i].status = "completed" => workspace'[i].status = "completed"]_vars

SelectionOfPending(s) ==
  [i \in {j \in DOMAIN s.workspace : s.workspace[j].status # "completed"} |->
     s.workspace[i].selected]

HasPending(s) == \E i \in DOMAIN s.workspace : s.workspace[i].status # "completed"

\* C9 as stated: with at least one non-completed item, toggleAllSelection
\* invoked twice in succession leaves the selected flag of every
\* non-completed item as it was.
C9_ToggleAllTwiceRestores ==
  HasPending(St) =>
    SelectionOfPending(toggleAllSelection(toggleAllSelection(St)))
      = SelectionOfPending(St)

UniformSelection(s) ==
  \/ \A i \in DOMAIN SelectionOfPending(s) : SelectionOfPending(s)[i]
  \/ \A i \in DOMAIN SelectionOfPending(s) : ~SelectionOfPending(s)[i]

\* C9 amended: the same, when the non-completed items are all selected or
\* all unselected before the first invocation.
C9_ToggleAllTwiceRestoresUniform ==
  (HasPending(St) /\ UniformSelection(St)) =>
    SelectionOfPending(toggleAllSelection(toggleAllSelection(St)))
      = SelectionOfPending(St)

\* Two pending items, both unselected, beside nothing else going on: the
\* first toggle selects both, the second deselects both.
C9_Witness ==
  /\ Len(workspace) = 2
  /\ \A i \in DOMAIN workspace :
       workspace[i].status = "idle" /\ ~workspace[i].selected
  /\ SelectionOfPending(toggleAllSelection(St)) = [i \in {1, 2} |-> TRUE]

\* C10: a completed item is never selected; toggleFileSelection on a
\* completed item changes nothing, and toggleAllSelection leaves it
\* unselected.
C10_CompletedNeverSelected ==
  \A i \in DOMAIN workspace :
    workspace[i].status = "completed" =>
      /\ ~workspace[i].selected
      /\ toggleFileSelection(St, workspace[i].id) = St
      /\ ~toggleAllSelection(St).workspace[i].selected

\* An item was completed while the other one is selected and pending.
C10_Witness ==
  \E i, j \in DOMAIN workspace :
    /\ workspace[i].status = "completed" /\ workspace[i].results.defined
    /\ workspace[j].status = "idle" /\ workspace[j].selected
    /\ history # <<>>

RECURSIVE FirstForos(_, _)
FirstForos(processes, seen) ==
  IF processes = <<>> THEN seen
  ELSE LET foro == Head(processes).foro
       IN FirstForos(Tail(processes),
                     IF \E i \in DOMAIN seen : seen[i] = foro THEN seen
                     ELSE Append(seen, foro))

ProcessosOf(processes, foro) ==
  LET Of(p) == p.foro = foro
      mine == SelectSeq(processes, Of)
  IN [i \in DOMAIN mine |-> mine[i].processo]

\* C11: the grouping fold maps every list of (foro, processo) records to a
\* mapping whose keys enumerate in the order of first occurrence of each
\* foro, each with the processo values of that foro in original order,
\* duplicates kept; the empty list gives the empty mapping.
C11_GroupKeepsFirstOccurrenceOrder ==
  (pure.fn = "group" /\ pure.done) =>
    /\ [i \in DOMAIN pure.result |-> pure.result[i].foro] = FirstForos(pure.args, <<>>)
    /\ \A i \in DOMAIN pure.result :
         pure.result[i].processos = ProcessosOf(pure.args, pure.result[i].foro)
    /\ pure.args = <<>> => pure.result = <<>>

LoadedAtRestart == IF storage.kind = "list" THEN storage.items ELSE <<>>

\* C13: at every point at which the application may be restarted, the
\* durable slot holds the history of the running application (the history
\* being loaded, between the startup effects and the render of what they
\* loaded), so that the next startup loads it.
C13_SlotHoldsTheHistory ==
  /\ (app.phase = "ready") => LoadedAtRestart = history
  /\ (app.phase = "mounted" /\ app.boot = "list") => LoadedAtRestart = app.loaded

\* C14: whatever the slot holds at startup, startup does not fail, and it
\* ends with the empty history when the slot is missing, does not parse or
\* holds something that is not a list of history entries.
C14_StartupToleratesAnySlot ==
  [][/\ app'.phase # "crashed"
     /\ (app.phase # "ready" /\ app'.phase = "ready" /\ app'.boot # "list")
          => history' = <<>>]_vars

EmptyTextMessage == "Não foi possível extrair texto desta parte do documento."

\* The states in which a failure of analyzeWorkspaceFile task t leaves the
\* application when the task returns (before the loop that awaits it goes
\* on): a rejected collaborator call, or a text that is only whitespace.
FailuresOf(t) ==
  LET f == tasks[t]
  IN IF f.pc = "extract"
     THEN {awfPage(St, t, FALSE, msg, FALSE) : msg \in ErrMessages}
            \cup (IF f.page + 1 = f.pages /\ IsActive(activeProcesses, f.key)
                  THEN {awfPage(St, t, TRUE, "", TRUE)} ELSE {})
     ELSE {awfAnalyzed(St, t, FALSE, msg, p) : msg \in ErrMessages, p \in Extractions}

\* C15: a failure of a batch item (empty text or a rejected collaborator
\* call) is caught in analyzeWorkspaceFile, sets the item to error and the
\* error message, and does not end the batch: unless the stop flag is set,
\* the loop starts the next item of its snapshot.
C15_BatchItemFailureIsCaught ==
  \A t \in DOMAIN tasks :
    (tasks[t].kind = "awf" /\ tasks[t].owner # 0 /\ tasks[t].cancelledAt = "") =>
      \A s1 \in FailuresOf(t) :
        LET b == tasks[t].owner
            fr == batches[LoopAt(St, b)]
            s2 == Resume(St, s1, b)
        IN /\ s1.workspace[ItemAt(workspace, tasks[t].fileId)].status = "error"
           /\ s1.error # Null
           /\ (~s1.isBatchStopped /\ fr.index < Len(fr.selectedFiles)) =>
                /\ IsRunning(s2, b)
                /\ s2.batches[LoopAt(s2, b)].index = fr.index + 1

\* C16: a task that stopAnalysis cancelled never sets the error message,
\* whatever is started after the stop.
C16_CancelledTaskSetsNoError ==
  [][\A t \in DOMAIN tasks :
       (/\ tasks[t].kind = "awf"
        /\ tasks[t].cancelledAt # ""
        /\ \/ tasks[t].pc = "extract" /\ AwfPageOf(t)
           \/ tasks[t].pc = "analyze" /\ AwfAnalyzedOf(t))
         => error' \in {error, Null}]_vars

\* C17: when the text extracted for a task that was not stopped is only
\* whitespace, the task ends without calling extractLegalData: it sets the
\* error message and its item to error, appends nothing to the history and
\* leaves groupedData as it is.
C17_EmptyTextIsAnError ==
  \A t \in TasksOf("awf", "extract") :
    (tasks[t].cancelledAt = "" /\ tasks[t].page + 1 = tasks[t].pages) =>
      LET s1 == awfPage(St, t, TRUE, "", TRUE)
      IN /\ Len(s1.tasks) = Len(tasks) - 1
         /\ s1.error = EmptyTextMessage
         /\ s1.workspace[ItemAt(workspace, tasks[t].fileId)].status = "error"
         /\ s1.history = history
         /\ s1.groupedData = groupedData

\* C18: when a task started by hand outside a batch returns and leaves no
\* task in flight, loading is false and progress.phase is idle.
C18_LastTaskReleasesLoadingAndProgress ==
  [][(/\ batches = <<>>
      /\ Len(tasks) = 1
      /\ tasks[1].kind = "awf"
      /\ tasks' = <<>>)
       => (~loading' /\ progress'.phase = "idle")]_vars

\* C19: if every collaborator call returns or rejects, every batch loop that
\* has started leaves its loop, by stop or at the end of its snapshot, and
\* the job in which it does ends with isSequentialRunning false, loading
\* false and progress {0,0,idle}.
C19_BatchLoopExitsAndReleases ==
  /\ \A b \in 1..MaxBatches : IsRunning(St, b) ~> ~IsRunning(St, b)
  /\ [][\A i \in DOMAIN batches :
          (\A j \in DOMAIN batches' : batches'[j].loop # batches[i].loop)
            => /\ ~isSequentialRunning'
               /\ ~loading'
               /\ progress' = IdleProgress]_vars

\* A stopped loop whose awaited call is still pending: it leaves its loop
\* when that call returns.
C19_Witness ==
  \E i \in DOMAIN batches :
    /\ batches[i].stopped
    /\ batches[i].index < Len(batches[i].selectedFiles)
    /\ \E t \in TasksOf("awf", "analyze") : tasks[t].owner = batches[i].loop

RECURSIVE SumPageCounts(_)
SumPageCounts(parts) ==
  IF parts = <<>> THEN 0 ELSE Head(parts).pageCount + SumPageCounts(Tail(parts))

\* C20: for totalPages >= 0 and pagesPerPart >= 1, splitPdf returns
\* ceil(totalPages / pagesPerPart) parts in page order; part k covers pages
\* (k-1)*pagesPerPart+1 .. min(k*pagesPerPart, totalPages), its pageCount is
\* the size of that range and its label carries k and the range; the ranges
\* are contiguous and the page counts sum to totalPages (25 by 10 gives
\* 1-10, 11-20, 21-25 with counts 10, 10, 5).
C20_SplitPdfParts ==
  (pure.fn = "splitPdf" /\ pure.done) =>
    LET totalPages == pure.args[1]
        pagesPerPart == pure.args[2]
        parts == pure.result
    IN /\ Len(parts) = (totalPages + pagesPerPart - 1) \div pagesPerPart
       /\ \A k \in DOMAIN parts :
            /\ parts[k].name = [doc |-> "part", part |-> k,
                                from |-> (k - 1) * pagesPerPart + 1,
                                to |-> Min(k * pagesPerPart, totalPages)]
            /\ parts[k].pageCount = parts[k].name.to - parts[k].name.from + 1
            /\ parts[k].pageCount >= 1
            /\ k > 1 => parts[k].name.from = parts[k - 1].name.to + 1
       /\ SumPageCounts(parts) = totalPages
       /\ (totalPages = 25 /\ pagesPerPart = 10) =>
            [k \in DOMAIN parts |-> <<parts[k].name.from, parts[k].name.to,
                                      parts[k].pageCount>>]
              = <<(<<1, 10, 10>>), (<<11, 20, 10>>), (<<21, 25, 5>>)>>

\* splitPdf has split 25 pages by 10.
C20_Witness ==
  /\ pure.fn = "splitPdf" /\ pure.done
  /\ pure.args = <<25, 10>>
  /\ Len(pure.result) = 3
  /\ pure.result[3].pageCount = 5

\* The file type is wrong for the mode: not a PDF outside the OCR mode,
\* neither an image nor a PDF in the OCR mode.
WrongType(toolMode, mime) ==
  IF toolMode = "ocr" THEN ~IsImage(mime) /\ mime # "application/pdf"
  ELSE mime # "application/pdf"

UploadErrors ==
  {"Por favor, anexe um arquivo PDF válido.",
   "Por favor, anexe um arquivo de imagem (JPEG/PNG) ou um PDF para o modo OCR."}

\* C21: an upload whose file type is wrong for the active mode sets the
\* error message and starts no task: the registry, loading, history,
\* workspace and groupedData are unchanged and no frame is created.
C21_WrongTypeStartsNothing ==
  [][\A toolMode \in ToolModes, mime \in FileTypes, pages \in PageCounts,
        searchQuery \in SearchQueries :
       (/\ WrongType(toolMode, mime)
        /\ Becomes(handleFileUpload(St, toolMode, mime, pages, searchQuery)))
         => /\ error' \in UploadErrors
            /\ tasks' = tasks
            /\ activeProcesses' = activeProcesses
            /\ loading' = loading
            /\ history' = history
            /\ workspace' = workspace
            /\ groupedData' = groupedData]_vars

\* A file of a wrong type was refused while a task was in flight, which
\* goes on.
C21_Witness ==
  /\ error \in UploadErrors
  /\ loading
  /\ tasks # <<>>
  /\ IsActive(activeProcesses, tasks[1].key)

\* The frame g is the frame f, apart from the history field.
SameCall(f, g) == [f EXCEPT !.cancelledAt = ""] = [g EXCEPT !.cancelledAt = ""]

\* The analysis call that frame t awaits returns and the task runs to its
\* end.
AnalysisReturns(t) ==
  \/ t \in TasksOf("awf", "analyze") /\ AwfAnalyzedOf(t)
  \/ /\ t \in TasksOf("pfe", "analyze")
     /\ \E ok \in BOOLEAN, msg \in ErrMessages, processes \in Extractions :
          Becomes(pfeAnalyzed(St, t, ok, msg, processes))

\* C22: in a per-item task, a frame waits in extractLegalData only after
\* its extractTextFromPdf has returned the last page, and the results are
\* written (an item completed with results, groupedData set, a history
\* entry added) only in the job in which extractLegalData has returned.
C22_ExtractThenAnalyzeThenWrite ==
  [][/\ \A t \in DOMAIN tasks' :
          (tasks'[t].kind \in {"awf", "pfe"} /\ tasks'[t].pc = "analyze")
            => \/ \E u \in DOMAIN tasks :
                    tasks[u].pc = "analyze" /\ SameCall(tasks[u], tasks'[t])
               \/ /\ t \in DOMAIN tasks
                  /\ tasks[t].kind = tasks'[t].kind
                  /\ tasks[t].pc = "extract"
                  /\ tasks[t].page + 1 = tasks[t].pages
     /\ Len(history') > Len(history)
          => \E t \in DOMAIN tasks : AnalysisReturns(t)
     /\ (groupedData'.defined /\ groupedData' # groupedData)
          => \E t \in DOMAIN tasks : AnalysisReturns(t)
     /\ \A i \in DOMAIN workspace :
          (\/ /\ workspace'[i].status = "completed"
              /\ workspace[i].status # "completed"
           \/ /\ workspace'[i].results.defined
              /\ workspace'[i].results # workspace[i].results)
            => \E t \in DOMAIN tasks :
                 tasks[t].fileId = workspace[i].id /\ AnalysisReturns(t)]_vars

\* Both kinds of task have written their results.
C22_Witness ==
  /\ \E i \in DOMAIN workspace : workspace[i].status = "completed"
  /\ \E h \in DOMAIN history : history[h].name.file = UploadName
  /\ groupedData.defined

\* C23: the simulated progress stays below 100, in fact at most 96; a step
\* leaves it unchanged, resets it to 0, or adds 1..5 to a value below 92;
\* and it is 0 after every step that changes progress.phase.
C23_SimulatedProgressBelow100 ==
  /\ [](simulatedProgress \in 0..96)
  /\ [][/\ \/ simulatedProgress' = simulatedProgress
           \/ simulatedProgress' = 0
           \/ /\ simulatedProgress < 92
              /\ progress.phase = "analyzing"
              /\ simulatedProgress' - simulatedProgress \in 1..5
        /\ progress'.phase # progress.phase => simulatedProgress' = 0]_vars

\* The largest value: a tick added 5 to 91.
C23_Witness == simulatedProgress = 96 /\ progress.phase = "analyzing"

IsParse == pure.fn \in {"extractLegalData", "extractLegalDataFromModality"}

\* C24: once the service call has returned, extractLegalData and
\* extractLegalDataFromModality return and do not raise, whatever the
\* response text; for a missing, empty, blank or non-JSON text they return
\* an empty processes list, and the grouping block of the calling task then
\* gives the empty mapping without throwing.
C24_ResponseContentNeverRaises ==
  (IsParse /\ pure.result.stage # "called") =>
    /\ ~pure.result.raised
    /\ pure.args[1].kind # "json" =>
         /\ pure.result.value = JResult(<<>>)
         /\ pure.result.stage = "grouped" =>
              (~pure.result.threw /\ pure.result.grouped = <<>>)

\* A response that is not JSON went through the function and the grouping
\* block of the task.
C24_Witness ==
  /\ IsParse
  /\ pure.args[1].kind = "garbage"
  /\ pure.result.stage = "grouped"
  /\ pure.result.grouped = <<>>

\* C25: the history entry that a task of processFileForExtraction or
\* analyzeWorkspaceFile adds carries ' (Filtro)' exactly when the filter
\* list the task handed to extractLegalData was not empty; without a filter
\* its name is the file or part name; and its results are the grouped
\* mapping the task committed (to the item, or to groupedData).
C25_FilterSuffixIffFilter ==
  [][\A t \in DOMAIN tasks :
       (AnalysisReturns(t) /\ Len(history') = Len(history) + 1) =>
         LET e == history'[1]
             f == tasks[t]
         IN /\ e.name.file = f.name
            /\ e.name.suffix = " (Filtro)" <=> f.searchList # ""
            /\ f.searchList = "" => e.name = [file |-> f.name, suffix |-> ""]
            /\ IF f.kind = "awf"
               THEN workspace'[ItemAt(workspace, f.fileId)].results
                      = [defined |-> TRUE, value |-> e.results]
               ELSE groupedData' = [defined |-> TRUE, value |-> e.results]]_vars

\* A history with an entry of a filtered task and an entry of an unfiltered
\* one.
C25_Witness ==
  \E i, j \in DOMAIN history :
    /\ history[i].name.suffix = " (Filtro)"
    /\ history[j].name.suffix = ""
    /\ history[i].name.file # history[j].name.file

\* The processos recorded under foro in the entries of hist, in the order of
\* the history and of each entry, with repetitions.
RECURSIVE RecordedUnder(_, _)
RecordedUnder(hist, foro) ==
  IF hist = <<>> THEN <<>>
  ELSE (IF HasKey(Head(hist).results, foro)
        THEN ValueOf(Head(hist).results, foro) ELSE <<>>)
         \o RecordedUnder(Tail(hist), foro)

\* xs without the later repetitions of a member.
FirstOccurrences(xs) ==
  SelectSeq([i \in DOMAIN xs |->
               [x |-> xs[i], first |-> \A j \in 1..(i - 1) : xs[j] # xs[i]]],
            LAMBDA r : r.first)

OccursInHistory(hist, foro) ==
  \E h \in DOMAIN hist : HasKey(hist[h].results, foro)

\* C26: downloadConsolidatedSelection does nothing with an empty selection;
\* otherwise the merged mapping has exactly the selected foros that occur in
\* the history, each once, and under each the distinct processos recorded
\* under it in the history, in the order of their first occurrence.
C26_ConsolidatedMerge ==
  (pure.fn = "downloadConsolidatedSelection" /\ pure.done) =>
    LET selection == pure.args[1]
        hist == pure.args[2]
        merged == pure.result.merged
    IN IF selection = <<>> THEN ~pure.result.downloaded /\ merged = <<>>
       ELSE /\ pure.result.downloaded
            /\ {merged[i].foro : i \in DOMAIN merged}
                 = {selection[i] : i \in DOMAIN selection}
                     \cap {f \in Foros : OccursInHistory(hist, f)}
            /\ \A i, j \in DOMAIN merged :
                 merged[i].foro = merged[j].foro => i = j
            /\ \A i \in DOMAIN merged :
                 LET firsts == FirstOccurrences(RecordedUnder(hist, merged[i].foro))
                 IN merged[i].processos = [k \in DOMAIN firsts |-> firsts[k].x]

\* Two entries share a foro and a processo, and a selected foro is not in
\* the history.
C26_Witness ==
  /\ pure.fn = "downloadConsolidatedSelection" /\ pure.done
  /\ Len(pure.args[1]) = 2
  /\ Len(pure.result.merged) = 1
  /\ Len(pure.args[2]) = 2
  /\ Len(RecordedUnder(pure.args[2], pure.result.merged[1].foro)) = 3
  /\ Len(pure.result.merged[1].processos) = 2

\* The lines of the report after the header.
ReportBody(text) == SubSeq(text, Len(ReportHeader) + 1, Len(text))

\* Where the block of the k-th passing foro starts in the body: after the
\* blocks of the passing foros before it, each of two lines and its
\* processos.
RECURSIVE BlockStart(_, _)
BlockStart(passing, k) ==
  IF k = 1 THEN 1
  ELSE BlockStart(passing, k - 1) + Len(passing[k - 1].processos) + 2

\* C27: after the header the report has one block for each foro of the
\* results that passes the filter (every foro when there is no filter), in
\* the key order of the results: 'FORO: <name>', one '  - <processo>' line
\* for each processo in order, and an empty line; nothing else.
C27_ReportBlocks ==
  (pure.fn = "downloadResults" /\ pure.done) =>
    LET results == pure.args[1]
        filterForos == pure.args[2]
        Passes(e) == ~filterForos.given \/ e.foro \in filterForos.foros
        passing == SelectSeq(results, Passes)
        body == ReportBody(pure.result)
    IN /\ SubSeq(pure.result, 1, Len(ReportHeader)) = ReportHeader
       /\ Len(body) = IF passing = <<>> THEN 0
                      ELSE BlockStart(passing, Len(passing))
                             + Len(passing[Len(passing)].processos) + 1
       /\ \A k \in DOMAIN passing :
            LET at == BlockStart(passing, k)
                n == Len(passing[k].processos)
            IN /\ body[at] = Line("FORO: ", passing[k].foro)
               /\ \A i \in 1..n :
                    body[at + i] = Line("  - ", passing[k].processos[i])
               /\ body[at + n + 1] = Line("", "")

\* A report of two blocks out of three foros.
C27_Witness ==
  /\ pure.fn = "downloadResults" /\ pure.done
  /\ Len(pure.args[1]) = 3
  /\ Cardinality(pure.args[2].foros) = 2
  /\ Len(ReportBody(pure.result)) = 6

\* C28: when no analysis task is in flight, no workspace item is in
\* processing.
C28_NoItemLeftProcessing ==
  tasks = <<>> => \A i \in DOMAIN workspace : workspace[i].status # "processing"

\* C29: while an analysis task that no stopAnalysis has cancelled is in
\* flight, loading is true and progress.phase is not idle.
C29_LoadingWhileTaskInFlight ==
  (\E t \in DOMAIN tasks :
     tasks[t].kind \in {"awf", "pfe", "ocr"} /\ tasks[t].cancelledAt = "")
    => (loading /\ progress.phase # "idle")

SplitInFlight == \E t \in DOMAIN tasks : tasks[t].kind = "split"

\* C30: for every pagesPerPart that passes the guard of handleSplit, the
\* loop of splitPdf terminates and handleSplit ends with loading false.
C30_SplitTerminates == SplitInFlight ~> (~SplitInFlight /\ ~loading)

====
